---- MODULE Spec2Model ----
(***************************************************************************)
(* A model of news_to_telegram.py: the fetch -> dedupe -> format -> chunk  *)
(* -> deliver pipeline of the daily news digest.                           *)
(*                                                                         *)
(* Text is a sequence of one-character strings.  The pure functions of the *)
(* script are operators; each has a specification of its own whose Init    *)
(* draws the arguments from bounded sets and whose action applies the      *)
(* function.  main() is a state machine over the seen-file, the in-memory  *)
(* seen-set and the position of the run.                                   *)
(***************************************************************************)
EXTENDS Integers, Sequences, FiniteSets, TLC

VARIABLES
    arg,        \* arguments of the function under call (pure-function specifications)
    ret,        \* <<>> before the call, <<value>> once it has returned
    pc,         \* position of main(): idle, regions, send, save; exit, failed, done
    file,       \* SEEN_FILE: [exists, text]
    seen,       \* main's local `seen`
    blocks,     \* main's `blocks`: per region, the items format_region was given
    parts,      \* number of chunks chunk_message(msg) produced in this run
    sent,       \* chunks telegram_send has returned from in this run
    dry,        \* DRY_RUN of this run
    ghost       \* observations about the runs, read by the properties only

vars == <<arg, ret, pc, file, seen, blocks, parts, sent, dry, ghost>>

Returned == ret # <<>>
Ret == ret[1]
NoFile == [exists |-> FALSE, text |-> <<>>]

-----------------------------------------------------------------------------
(* Bounds of the model *)

\* longest text given to clean_text
MaxCleanLen == 5
\* longest text given to chunk_message
MaxChunkLen == 6
\* largest max_len given to chunk_message
MaxLimit == 3
\* MAX_SEEN, scaled down from 2000 so that sets above and below it are enumerable
MaxSeen == 2
\* largest set given to save_seen on its own
MaxSeenSet == 4
\* largest cap given to fetch_region_items on its own
MaxCap == 2
\* most entries in one feed document
MaxEntries == 2
\* the description budget of format_region, scaled down from 140; the cut keeps 3
\* characters fewer (137 of 140) to make room for "..."
DescBudget == 4
\* longest title and link given to format_region on its own
MaxFieldLen == 2
\* MAX_ITEMS_PER_REGION, scaled down from 20
ItemCap == 2
\* most chunks one digest is cut into
MaxChunks == 2
\* runs of main() that are followed
MaxRuns == 3

-----------------------------------------------------------------------------
(* Text helpers: Python's str methods on sequences of characters *)

SP == " "
NL == "\n"
Whitespace == {SP, NL}

\* all texts over alphabet A of length at most n
TextsUpTo(A, n) == UNION {[1..k -> A] : k \in 0..n}

\* text[i:] and text[:i] for 0 <= i <= len(text)
From(text, i) == SubSeq(text, i + 1, Len(text))
UpTo(text, i) == SubSeq(text, 1, i)

RECURSIVE lstrip(_)
lstrip(text) ==
    IF text # <<>> /\ Head(text) \in Whitespace THEN lstrip(Tail(text)) ELSE text

RECURSIVE rstrip(_)
rstrip(text) ==
    IF text # <<>> /\ text[Len(text)] \in Whitespace
    THEN rstrip(UpTo(text, Len(text) - 1))
    ELSE text

strip(text) == rstrip(lstrip(text))

\* text.rfind(ch, 0, end): the highest 0-based index below end holding ch, else -1
rfind(text, ch, end) ==
    LET hits == {i \in 0..(end - 1) : i < Len(text) /\ text[i + 1] = ch}
    IN  IF hits = {} THEN -1 ELSE CHOOSE i \in hits : \A j \in hits : j <= i

\* 1-based position of the first ch in text, 0 when there is none
find1(text, ch) ==
    LET hits == {i \in 1..Len(text) : text[i] = ch}
    IN  IF hits = {} THEN 0 ELSE CHOOSE i \in hits : \A j \in hits : i <= j

-----------------------------------------------------------------------------
(* strip_tags, html.unescape, clean_text *)

\* re.sub(r"<[^>]+>", " ", text): leftmost matches, left to right.  A match starts
\* at a "<" that is followed by at least one character other than ">" and then,
\* somewhere later, a ">"; it ends at the first such ">".
RECURSIVE strip_tags(_)
strip_tags(text) ==
    IF text = <<>> THEN <<>>
    ELSE LET close == find1(Tail(text), ">")
         IN  IF Head(text) = "<" /\ close >= 2
             THEN <<SP>> \o strip_tags(From(text, close + 1))
             ELSE <<Head(text)>> \o strip_tags(Tail(text))

\* The entries of html.entities.html5 whose names are written with the letters of
\* the model's alphabet (l, t).  Names carry their own ";" as in the table.
Html5 ==
    (<<"l", "t", ";">> :> "<") @@ (<<"l", "t">> :> "<") @@ (<<"l", "l", ";">> :> "LL")

\* characters the name of a character reference may not contain: [^\t\n\f <&#;]
NameStop == {SP, NL, "<", "&", ";"}

\* the longest run of name characters at the start of text, at most 32 long
RECURSIVE NameRun(_)
NameRun(text) ==
    IF text = <<>> \/ Head(text) \in NameStop THEN <<>>
    ELSE <<Head(text)>> \o NameRun(Tail(text))

\* html.unescape's replace_charref on the matched s (name plus optional ";"):
\* the whole of s if the table has it, else the longest prefix of s of length
\* len(s)-1 down to 2 that the table has, followed by the rest, else "&" + s.
replace_charref(s) ==
    IF s \in DOMAIN Html5 THEN <<Html5[s]>>
    ELSE LET hits == {x \in 2..(Len(s) - 1) : UpTo(s, x) \in DOMAIN Html5}
         IN  IF hits = {} THEN <<"&">> \o s
             ELSE LET x == CHOOSE i \in hits : \A j \in hits : j <= i
                  IN  <<Html5[UpTo(s, x)]>> \o From(s, x)

\* html.unescape(text): every "&" followed by at least one name character is a
\* match of the reference pattern, taken greedily with its optional ";"
RECURSIVE unescape(_)
unescape(text) ==
    IF text = <<>> THEN <<>>
    ELSE IF Head(text) = "&" /\ NameRun(Tail(text)) # <<>>
         THEN LET name == NameRun(Tail(text))
                  after == From(text, 1 + Len(name))
                  semi == after # <<>> /\ Head(after) = ";"
                  s == IF semi THEN name \o <<";">> ELSE name
              IN  replace_charref(s) \o unescape(From(text, 1 + Len(s)))
         ELSE <<Head(text)>> \o unescape(Tail(text))

\* re.sub(r"\s+", " ", text): every run of whitespace becomes one space
RECURSIVE collapse_ws(_)
collapse_ws(text) ==
    IF text = <<>> THEN <<>>
    ELSE IF Head(text) \in Whitespace
         THEN <<SP>> \o collapse_ws(lstrip(text))
         ELSE <<Head(text)>> \o collapse_ws(Tail(text))

clean_text(text) == strip(collapse_ws(unescape(strip_tags(text))))

-----------------------------------------------------------------------------
(* chunk_message *)

RECURSIVE chunk_loop(_, _, _)
chunk_loop(text, max_len, acc) ==
    IF Len(text) > max_len
    THEN LET found == rfind(text, NL, max_len)
             cut == IF found = -1 THEN max_len ELSE found
         IN  chunk_loop(strip(From(text, cut)), max_len,
                        Append(acc, strip(UpTo(text, cut))))
    ELSE IF text # <<>> THEN Append(acc, text) ELSE acc

chunk_message(text, max_len) == chunk_loop(text, max_len, <<>>)

-----------------------------------------------------------------------------
(* Specifications of the pure functions *)

MainIdle ==
    /\ pc = "idle" /\ file = NoFile /\ seen = {} /\ blocks = <<>>
    /\ parts = 0 /\ sent = 0 /\ dry = FALSE /\ ghost = <<>>

MainVars == <<pc, file, seen, blocks, parts, sent, dry, ghost>>

CleanAlphabet == {"&", "<", ">", ";", SP, "l", "t"}

InitClean ==
    /\ arg \in TextsUpTo(CleanAlphabet, MaxCleanLen)
    /\ ret = <<>>
    /\ MainIdle

\* desc = clean_text(...) in pick_description, then clean_text(desc) in format_region
CallCleanText ==
    /\ ret = <<>>
    /\ ret' = <<[once |-> clean_text(arg), twice |-> clean_text(clean_text(arg))]>>
    /\ UNCHANGED <<arg, MainVars>>

SpecClean == InitClean /\ [][CallCleanText]_vars

\* C5: clean_text is idempotent: clean_text(clean_text(s)) = clean_text(s) for every
\* text s, so the second normalisation in format_region changes nothing.
C5_CleanTextIdempotent == Returned => Ret.twice = Ret.once

ChunkAlphabet == {NL, SP, "a"}

InitChunk ==
    /\ arg \in [text : TextsUpTo(ChunkAlphabet, MaxChunkLen), max_len : 1..MaxLimit]
    /\ ret = <<>>
    /\ MainIdle

CallChunkMessage ==
    /\ ret = <<>>
    /\ ret' = <<chunk_message(arg.text, arg.max_len)>>
    /\ UNCHANGED <<arg, MainVars>>

SpecChunk == InitChunk /\ [][CallChunkMessage]_vars

\* C2: every chunk chunk_message(text, L) returns, for L >= 1, is at most L long
\* and is not the empty text.
C2_ChunksBoundedNonEmpty ==
    Returned =>
        \A i \in 1..Len(Ret) : Len(Ret[i]) <= arg.max_len /\ Ret[i] # <<>>

\* the part of C2 the code does keep: no chunk is longer than the limit
ChunksWithinLimit ==
    Returned => \A i \in 1..Len(Ret) : Len(Ret[i]) <= arg.max_len

-----------------------------------------------------------------------------
(* fetch_feed_content *)

RETRIES == 2

\* One GET attempt as the network answers it: a transport exception, or a
\* response with a status code and a body.
Attempt(bodies, statuses) ==
    [exc : {FALSE}, status : statuses, body : bodies]
        \cup [exc : {TRUE}, status : {0}, body : {CHOOSE b \in bodies : TRUE}]

None == [none |-> TRUE, body |-> <<>>]
Some(body) == [none |-> FALSE, body |-> body]

Warn(kind, url, n) == [kind |-> kind, url |-> url, n |-> n]

\* the test of line 105 that turns a response into an HTTPError
http_error_off_by_one(status) == status > 400
http_error(status) == status >= 400

\* The loop `for attempt in range(RETRIES + 1)`, entered at `attempt` with the
\* warnings printed so far.  answers[k] is what the k-th GET meets.  time.sleep
\* between attempts changes no state and is left out.
RECURSIVE fetch_loop(_, _, _, _)
fetch_loop(url, answers, attempt, log) ==
    IF attempt > RETRIES
    THEN [content |-> None, gets |-> attempt,
          log |-> Append(log, Warn("giving_up", url, 0))]
    ELSE LET r == answers[attempt + 1]
         IN  IF r.exc \/ http_error(r.status)
             THEN fetch_loop(url, answers, attempt + 1,
                             Append(log, Warn("fetch_failed", url, attempt + 1)))
             ELSE [content |-> Some(r.body), gets |-> attempt + 1, log |-> log]

\* fetch_feed_content(url) against the answers the network gives to its GETs:
\* the content returned, the number of GETs made, the warnings printed
fetch_feed_content(url, answers) == fetch_loop(url, answers, 0, <<>>)

Urls == {"u1", "u2"}
FetchStatuses == {200, 399, 400, 503}
FetchBodies == {"doc1", "doc2"}

InitFetch ==
    /\ arg \in [url : Urls,
                answers : [1..(RETRIES + 1) -> Attempt(FetchBodies, FetchStatuses)]]
    /\ ret = <<>>
    /\ MainIdle

CallFetchFeedContent ==
    /\ ret = <<>>
    /\ ret' = <<fetch_feed_content(arg.url, arg.answers)>>
    /\ UNCHANGED <<arg, MainVars>>

SpecFetch == InitFetch /\ [][CallFetchFeedContent]_vars

\* an attempt that succeeds: no exception and a status below 400
Succeeds(a) == ~a.exc /\ a.status < 400
\* the attempts that succeed among the RETRIES + 1 = 3 the call may make
Successes(answers) == {k \in 1..(RETRIES + 1) : Succeeds(answers[k])}
FirstSuccess(answers) ==
    CHOOSE k \in Successes(answers) : \A j \in Successes(answers) : k <= j

\* C6: fetch_feed_content makes at most 3 GETs; it returns the body of the first
\* attempt that succeeds and makes no attempt after it, printing one warning for
\* each attempt that failed before; it returns None exactly when all 3 attempts
\* fail, after 3 per-attempt warnings and one final giving-up warning.
C6_FetchBoundedRetry ==
    Returned =>
        LET ok == Successes(arg.answers)
            failed == [k \in 1..(Ret.gets - 1) |-> Warn("fetch_failed", arg.url, k)]
        IN  /\ Ret.gets <= 3
            /\ Ret.content.none <=> ok = {}
            /\ ok # {} =>
                 /\ Ret.gets = FirstSuccess(arg.answers)
                 /\ Ret.content = Some(arg.answers[FirstSuccess(arg.answers)].body)
                 /\ Ret.log = failed
            /\ ok = {} =>
                 /\ Ret.gets = 3
                 /\ Ret.log = [k \in 1..3 |-> Warn("fetch_failed", arg.url, k)]
                               \o <<Warn("giving_up", arg.url, 0)>>

\* a call whose three attempts all fail, by a status of exactly 400, by an
\* exception and by a 503, and which returns None after four warnings
C6_Witness ==
    /\ Returned
    /\ ~arg.answers[1].exc /\ arg.answers[1].status = 400
    /\ arg.answers[2].exc
    /\ ~arg.answers[3].exc /\ arg.answers[3].status = 503
    /\ Ret.gets = 3 /\ Ret.content.none /\ Len(Ret.log) = 4

-----------------------------------------------------------------------------
(* Seen-set store: load_seen, save_seen *)

MAX_SEEN == MaxSeen

\* list(seen): the members of a set in an order Python does not fix
Orders(S) ==
    {o \in [1..Cardinality(S) -> S] : \A i, j \in 1..Cardinality(S) : o[i] = o[j] => i = j}

\* "\n".join(items)
RECURSIVE join(_)
join(items) ==
    IF items = <<>> THEN <<>>
    ELSE IF Len(items) = 1 THEN items[1]
    ELSE items[1] \o <<NL>> \o join(Tail(items))

\* lst[-n:] for n >= 1
Last(lst, n) == IF Len(lst) <= n THEN lst ELSE From(lst, Len(lst) - n)
\* lst[:-n] for n >= 1
AllButLast(lst, n) == IF Len(lst) <= n THEN <<>> ELSE UpTo(lst, Len(lst) - n)

\* the slice of line 90: the last MAX_SEEN of list(seen)
keep_wrong_side(lst) == AllButLast(lst, MAX_SEEN)
keep(lst) == Last(lst, MAX_SEEN)

\* save_seen(seen), where lst is list(seen): the file as it is written
save_seen(lst) ==
    LET items == keep(lst)
    IN  [exists |-> TRUE,
         text |-> join(items) \o (IF items # <<>> THEN <<NL>> ELSE <<>>)]

\* the lines of a text file as iteration yields them, without their line ends
RECURSIVE lines_of(_)
lines_of(text) ==
    IF text = <<>> THEN <<>>
    ELSE LET nl == find1(text, NL)
         IN  IF nl = 0 THEN <<text>>
             ELSE <<UpTo(text, nl - 1)>> \o lines_of(From(text, nl))

\* load_seen(): the stripped non-blank lines of the file, {} when it is absent
load_seen(f) ==
    IF ~f.exists THEN {}
    ELSE {strip(l) : l \in {m \in {lines_of(f.text)[i] : i \in 1..Len(lines_of(f.text))} :
                                 strip(m) # <<>>}}

\* fingerprints: non-empty texts without whitespace, of more than one length
Fingerprints == {<<"0">>, <<"1">>, <<"0", "1">>, <<"1", "0">>, <<"1", "1">>}

InitSeen ==
    /\ \E S \in (SUBSET Fingerprints) \ {{}} :
          /\ Cardinality(S) <= MaxSeenSet
          /\ arg \in [seen : {S}, lst : Orders(S)]
    /\ ret = <<>>
    /\ pc = "idle" /\ file \in {NoFile, [exists |-> TRUE, text |-> <<"0", NL>>]}
    /\ seen = {} /\ blocks = <<>> /\ parts = 0 /\ sent = 0 /\ dry = FALSE
    /\ ghost = <<>>

CallSaveSeen ==
    /\ ret = <<>> /\ pc = "idle"
    /\ file' = save_seen(arg.lst)
    /\ pc' = "saved"
    /\ UNCHANGED <<arg, ret, seen, blocks, parts, sent, dry, ghost>>

CallLoadSeen ==
    /\ ret = <<>> /\ pc = "saved"
    /\ ret' = <<load_seen(file)>>
    /\ UNCHANGED <<arg, MainVars>>

NextSeen == CallSaveSeen \/ CallLoadSeen

SpecSeen == InitSeen /\ [][NextSeen]_vars

Min(a, b) == IF a <= b THEN a ELSE b

\* C7: for a non-empty set S of fingerprints, save_seen(S) followed by load_seen()
\* returns min(|S|, MAX_SEEN) fingerprints, all of them members of S.
C7_SaveLoadRoundTrip ==
    Returned =>
        /\ Cardinality(Ret) = Min(Cardinality(arg.seen), MAX_SEEN)
        /\ Ret \subseteq arg.seen

\* a set larger than MAX_SEEN, some member two digits long, saved and loaded back
C7_Witness ==
    /\ Returned
    /\ Cardinality(arg.seen) > MAX_SEEN
    /\ \E fp \in Ret : Len(fp) = 2
    /\ Cardinality(Ret) = MAX_SEEN

-----------------------------------------------------------------------------
(* pick_description, stable_hash, fetch_region_items *)

\* A parsed entry: the attributes the script reads, <<>> for one that is missing
Entry(title, link, summary, description) ==
    [title |-> title, link |-> link, summary |-> summary, description |-> description]

pick_description(e) ==
    IF e.summary # <<>> THEN clean_text(e.summary)
    ELSE IF e.description # <<>> THEN clean_text(e.description)
    ELSE <<>>

\* hashlib.sha256(...).hexdigest() stands as a collision-free digest: every
\* character of the hashed text is written as one hex digit of its own
HexOf ==
    ("a" :> "a") @@ ("b" :> "b") @@ ("u" :> "c") @@ ("v" :> "d") @@ ("|" :> "0")
    @@ (SP :> "1") @@ ("<" :> "2") @@ (">" :> "3") @@ ("&" :> "4") @@ (";" :> "5")
    @@ ("l" :> "6") @@ ("t" :> "7") @@ ("\"" :> "8") @@ ("LL" :> "9") @@ (NL :> "e")

hexdigest(text) == [i \in 1..Len(text) |-> HexOf[text[i]]]

\* h[:24]
stable_hash(title, link) ==
    LET h == hexdigest(title \o <<"|">> \o link)
    IN  UpTo(h, Min(24, Len(h)))

\* A response body: empty bytes, or a document as feedparser.parse reads it
EmptyBody == [empty |-> TRUE, bozo |-> FALSE, entries |-> <<>>]
Doc(bozo, entries) == [empty |-> FALSE, bozo |-> bozo, entries |-> entries]

\* the test of line 145
already_seen(key, seen_set) == key \in seen_set

\* the test of line 149
cap_reached(items, limit) == Len(items) >= limit

\* scan_entries with the fingerprint of every accepted item added to the seen-set
\* on the spot, as a seen.add(key) inside the loop would do
RECURSIVE scan_entries_dedup(_, _, _, _, _)
scan_entries_dedup(entries, e, limit, seen_set, acc) ==
    IF e > Len(entries) THEN [acc |-> acc, full |-> FALSE]
    ELSE LET title == clean_text(entries[e].title)
             link == entries[e].link
             desc == pick_description(entries[e])
             key == stable_hash(title, link)
         IN  IF title = <<>> \/ link = <<>>
             THEN scan_entries_dedup(entries, e + 1, limit, seen_set, acc)
             ELSE IF already_seen(key, seen_set)
             THEN scan_entries_dedup(entries, e + 1, limit, seen_set,
                                     [acc EXCEPT !.skipped = @ \cup {key}])
             ELSE LET item == [title |-> title, desc |-> desc, link |-> link, key |-> key]
                      added == [acc EXCEPT !.items = Append(@, item)]
                  IN  IF cap_reached(added.items, limit)
                      THEN [acc |-> added, full |-> TRUE]
                      ELSE scan_entries_dedup(entries, e + 1, limit,
                                              seen_set \cup {key}, added)

\* The loop `for e in entries`, entered at entry number e.  acc carries the items
\* collected, the warnings printed and (an observation) the keys the seen filter
\* skipped.  full: the loop returned from the function at line 150.
RECURSIVE scan_entries(_, _, _, _, _)
scan_entries(entries, e, limit, seen_set, acc) ==
    IF e > Len(entries) THEN [acc |-> acc, full |-> FALSE]
    ELSE LET title == clean_text(entries[e].title)
             link == entries[e].link
             desc == pick_description(entries[e])
             key == stable_hash(title, link)
         IN  IF title = <<>> \/ link = <<>>
             THEN scan_entries(entries, e + 1, limit, seen_set, acc)
             ELSE IF already_seen(key, seen_set)
             THEN scan_entries(entries, e + 1, limit, seen_set,
                               [acc EXCEPT !.skipped = @ \cup {key}])
             ELSE LET item == [title |-> title, desc |-> desc, link |-> link, key |-> key]
                      added == [acc EXCEPT !.items = Append(@, item)]
                  IN  IF cap_reached(added.items, limit)
                      THEN [acc |-> added, full |-> TRUE]
                      ELSE scan_entries(entries, e + 1, limit, seen_set, added)

\* The loop `for url in feed_urls`, entered at feed number f.  net[url] is what the
\* GETs of that url meet.
RECURSIVE scan_feeds(_, _, _, _, _, _)
scan_feeds(feed_urls, f, limit, seen_set, net, acc) ==
    IF f > Len(feed_urls)
    THEN [acc EXCEPT !.items = UpTo(@, Min(limit, Len(@)))]
    ELSE LET url == feed_urls[f]
             got == fetch_feed_content(url, net[url])
             logged == [acc EXCEPT !.log = @ \o got.log, !.visited = Append(@, url)]
         IN  IF got.content.none \/ got.content.body.empty
             THEN scan_feeds(feed_urls, f + 1, limit, seen_set, net, logged)
             ELSE LET d == got.content.body
                      parsed == IF d.bozo
                                THEN [logged EXCEPT
                                        !.log = Append(@, Warn("parse_issue", url, 0))]
                                ELSE logged
                  IN  IF d.entries = <<>>
                      THEN scan_feeds(feed_urls, f + 1, limit, seen_set, net,
                               [parsed EXCEPT
                                  !.log = Append(@, Warn("no_entries", url, 0))])
                      ELSE LET r == scan_entries(d.entries, 1, limit, seen_set, parsed)
                           IN  IF r.full THEN r.acc
                               ELSE scan_feeds(feed_urls, f + 1, limit, seen_set, net,
                                               r.acc)

\* fetch_region_items(feed_urls, limit, seen): .items is the list returned, .log
\* the warnings printed during the call; two observations beside them: .skipped,
\* the keys found in seen, and .visited, the urls fetched
fetch_region_items(feed_urls, limit, seen_set, net) ==
    scan_feeds(feed_urls, 1, limit, seen_set, net,
               [items |-> <<>>, log |-> <<>>, skipped |-> {}, visited |-> <<>>])

\* what the network may answer to the GETs of one url
Ok(body) == [exc |-> FALSE, status |-> 200, body |-> body]
Failed(status) == [exc |-> FALSE, status |-> status, body |-> EmptyBody]
Raised == [exc |-> TRUE, status |-> 0, body |-> EmptyBody]
AllFail == <<Raised, Failed(503), Failed(400)>>
OkFirst(body) == <<Ok(body), Ok(body), Ok(body)>>
OkThird(body) == <<Raised, Failed(503), Ok(body)>>
AnswersOver(bodies) ==
    {AllFail} \cup {OkFirst(b) : b \in bodies} \cup {OkThird(b) : b \in bodies}

TitleA == <<"a">>
TitleB == <<"b">>
LinkU == <<"u">>
RegionEntries ==
    { Entry(TitleA, LinkU, <<"b">>, <<>>),
      Entry(TitleB, LinkU, <<>>, <<"a">>),
      Entry(<<"a", SP>>, LinkU, <<>>, <<>>),
      Entry(<<SP>>, LinkU, <<"b">>, <<>>),
      Entry(TitleA, <<>>, <<>>, <<>>) }
RegionBodies ==
    {EmptyBody} \cup {Doc(b, es) : b \in BOOLEAN, es \in TextsUpTo(RegionEntries, MaxEntries)}
RegionFeeds == <<"u1", "u2">>
KeyA == stable_hash(TitleA, LinkU)
KeyB == stable_hash(TitleB, LinkU)

InitRegion ==
    /\ arg \in [feed_urls : {RegionFeeds}, limit : 0..MaxCap, seen : SUBSET {KeyA, KeyB},
                net : [Urls -> AnswersOver(RegionBodies)]]
    /\ ret = <<>>
    /\ MainIdle

CallFetchRegionItems ==
    /\ ret = <<>>
    /\ ret' = <<fetch_region_items(arg.feed_urls, arg.limit, arg.seen, arg.net)>>
    /\ UNCHANGED <<arg, MainVars>>

SpecRegion == InitRegion /\ [][CallFetchRegionItems]_vars

\* C3: for every cap C >= 0, C = 0 included, fetch_region_items returns at most C
\* items.
C3_AtMostCapItems == Returned => Len(Ret.items) <= arg.limit

\* the part of C3 the code does keep: at most C items for every cap C >= 1
AtMostCapItemsPositive == Returned /\ arg.limit >= 1 => Len(Ret.items) <= arg.limit

\* a feed yields zero entries: every attempt fails, or the first attempt that
\* succeeds has an empty body or a document without entries
ZeroEntries(answers) ==
    \/ Successes(answers) = {}
    \/ answers[FirstSuccess(answers)].body.entries = <<>>

\* C8: whenever a feed url that fetch_region_items reaches yields zero entries, a
\* diagnostic naming that url is printed and processing goes on to the next feed.
C8_ZeroEntriesDiagnosed ==
    Returned =>
        \A f \in 1..Len(Ret.visited) :
            ZeroEntries(arg.net[arg.feed_urls[f]]) =>
                /\ \E w \in 1..Len(Ret.log) : Ret.log[w].url = arg.feed_urls[f]
                /\ f < Len(arg.feed_urls) => Len(Ret.visited) > f

\* the part of C8 the code does keep: a feed whose fetch fails, or whose document
\* has no entries, is diagnosed; only the empty body passes in silence
ZeroEntriesDiagnosedUnlessEmptyBody ==
    Returned =>
        \A f \in 1..Len(Ret.visited) :
            LET answers == arg.net[arg.feed_urls[f]]
            IN  /\ ZeroEntries(answers)
                /\ (Successes(answers) = {} \/ ~answers[FirstSuccess(answers)].body.empty)
                => \E w \in 1..Len(Ret.log) : Ret.log[w].url = arg.feed_urls[f]

-----------------------------------------------------------------------------
(* html.escape, format_region *)

\* html.escape(s) with quote=True, character by character
EscapeChar(c) ==
    CASE c = "&" -> <<"&", "a", "m", "p", ";">>
      [] c = "<" -> <<"&", "l", "t", ";">>
      [] c = ">" -> <<"&", "g", "t", ";">>
      [] c = "\"" -> <<"&", "q", "u", "o", "t", ";">>
      [] c = "'" -> <<"&", "#", "x", "2", "7", ";">>
      [] OTHER -> <<c>>

RECURSIVE escape(_)
escape(text) ==
    IF text = <<>> THEN <<>> ELSE EscapeChar(Head(text)) \o escape(Tail(text))

\* The block is kept as the pieces the f-strings put together: the formatter's own
\* markup (one token per literal) and the values inserted between it, each with
\* the field it comes from.  The text of the block is the pieces in order.
Markup(token) == [from |-> "markup", text |-> <<token>>]
Value(field, text) == [from |-> field, text |-> text]

\* the truncation of lines 196-197
truncate(desc) ==
    IF Len(desc) > DescBudget
    THEN rstrip(UpTo(desc, DescBudget - 3)) \o <<".", ".", ".">>
    ELSE desc

\* the line (or two) of item number i
item_lines(i, it) ==
    LET title == escape(it.title)
        link == it.link
        desc == clean_text(it.desc)
        head == <<Markup(ToString(i)), Markup(". <a href=\""), Value("link", link),
                  Markup("\">"), Value("title", title), Markup("</a>")>>
    IN  IF desc # <<>>
        THEN head \o <<Markup("\n   "), Value("desc", escape(truncate(desc)))>>
        ELSE head

RECURSIVE join_items(_, _)
join_items(items, i) ==
    IF i > Len(items) THEN <<>>
    ELSE <<Markup("\n")>> \o item_lines(i, items[i]) \o join_items(items, i + 1)

\* the newspaper emoji that opens the header is left out of its first token
format_region(region, items) ==
    <<Markup("<b>"), Value("region", escape(region)), Markup("</b>  <i>Top "),
      Markup(ToString(Len(items))), Markup("</i>")>>
    \o join_items(items, 1)

FormatRegions == {<<"a">>, <<"a", "&", "b">>}
FormatTitles == TextsUpTo({"a", "&", "<"}, MaxFieldLen)
FormatLinks == TextsUpTo({"u", "&", "\""}, MaxFieldLen) \ {<<>>}
FormatDescs ==
    { <<>>, <<"a">>, <<"a", SP, "b", "&", "b">>, <<"&", "l", "t", ";">>, <<"<", "a", ">">> }
FormatItems ==
    {[title |-> t, desc |-> d, link |-> l, key |-> stable_hash(t, l)] :
        t \in FormatTitles, d \in FormatDescs, l \in FormatLinks}

InitFormat ==
    /\ arg \in [region : FormatRegions, items : TextsUpTo(FormatItems, 1)]
    /\ ret = <<>>
    /\ MainIdle

CallFormatRegion ==
    /\ ret = <<>>
    /\ ret' = <<format_region(arg.region, arg.items)>>
    /\ UNCHANGED <<arg, MainVars>>

SpecFormat == InitFormat /\ [][CallFormatRegion]_vars

\* the character references html.escape writes
EscapedRefs == {EscapeChar(c) : c \in {"&", "<", ">", "\"", "'"}}

\* text holds no raw "&", "<", ">" or '"': every "&" opens one of the references
\* html.escape writes
RECURSIVE NoRawMarkup(_)
NoRawMarkup(text) ==
    IF text = <<>> THEN TRUE
    ELSE IF Head(text) \in {"<", ">", "\""} THEN FALSE
    ELSE IF Head(text) = "&"
         THEN \E r \in EscapedRefs :
                 /\ Len(r) <= Len(text)
                 /\ UpTo(text, Len(r)) = r
                 /\ NoRawMarkup(From(text, Len(r)))
         ELSE NoRawMarkup(Tail(text))

FeedFields == {"region", "title", "link", "desc"}

\* C9: every piece of feed-derived text format_region inserts (region name, title,
\* link, description) is HTML-escaped: no raw "&", "<", ">" or '"' of the feed
\* data appears outside the formatter's own markup.
C9_AllFeedTextEscaped ==
    Returned =>
        \A k \in 1..Len(Ret) : Ret[k].from \in FeedFields => NoRawMarkup(Ret[k].text)

\* the part of C9 the code does keep: region name, title and description are escaped
AllButLinkEscaped ==
    Returned =>
        \A k \in 1..Len(Ret) :
            Ret[k].from \in FeedFields \ {"link"} => NoRawMarkup(Ret[k].text)

-----------------------------------------------------------------------------
(* telegram_send and main *)

MAX_ITEMS_PER_REGION == ItemCap

\* FEEDS, scaled down: the regions in the order of the dict, one feed each
Regions == <<"Singapore", "US">>
FEEDS == ("Singapore" :> <<"sg1">>) @@ ("US" :> <<"us1">>)

\* the test of line 183 on the status of the POST
delivery_ok_any_2xx(status) == status >= 200 /\ status < 300
delivery_ok(status) == status = 200

\* telegram_send(text) for one chunk, given DRY_RUN and what the POST meets:
\* TRUE when it returns, FALSE when it raises (RuntimeError, or the transport's
\* exception out of requests.post)
telegram_send(dry_run, answer) ==
    dry_run \/ (~answer.exc /\ delivery_ok(answer.status))

\* the loop of lines 218-219: seen.add(it["key"]) for every item of the region
add_keys_to_copy(seen_set, region_items) == seen_set
add_keys(seen_set, region_items) ==
    seen_set \cup {region_items[i].key : i \in 1..Len(region_items)}

\* what the feeds serve during the runs that are followed
LinkV == <<"v">>
EntryA == Entry(TitleA, LinkU, <<"b">>, <<>>)
EntryB == Entry(TitleB, LinkU, <<>>, <<>>)
EntryC == Entry(TitleA, LinkV, <<>>, <<>>)
MainBodies ==
    { Doc(FALSE, <<EntryA>>), Doc(FALSE, <<EntryA, EntryA>>), Doc(FALSE, <<EntryA, EntryB>>),
      Doc(FALSE, <<EntryB, EntryC>>), Doc(TRUE, <<EntryC>>) }
MainAnswers == {AllFail} \cup {OkFirst(b) : b \in MainBodies}

\* what a POST to the Telegram API may meet
PostAnswers ==
    { [exc |-> FALSE, status |-> 200], [exc |-> FALSE, status |-> 201],
      [exc |-> FALSE, status |-> 400], [exc |-> TRUE, status |-> 0] }

NoRun ==
    [runs |-> 0, loaded |-> {}, fileAtStart |-> NoFile, posts |-> <<>>, saves |-> 0,
     skipped |-> {}, accepted |-> {}, delivered |-> {}, undelivered |-> {},
     truncated |-> FALSE]

Init ==
    /\ arg = <<>> /\ ret = <<>>
    /\ pc = "idle" /\ file = NoFile /\ seen = {} /\ blocks = <<>>
    /\ parts = 0 /\ sent = 0 /\ dry = FALSE
    /\ ghost = NoRun

\* the keys of the items a digest includes
DigestKeys(bs) == UNION {{bs[r][i].key : i \in 1..Len(bs[r])} : r \in 1..Len(bs)}

Stopped == pc \in {"idle", "exit", "failed", "done"}

NewRun ==
    [ghost EXCEPT !.runs = @ + 1, !.loaded = load_seen(file), !.fileAtStart = file,
                  !.posts = <<>>, !.saves = 0, !.skipped = {}, !.accepted = {}]

\* lines 206-207: a run started without BOT_TOKEN or CHAT_ID exits at once
StartWithoutCredentials ==
    /\ Stopped /\ ghost.runs < MaxRuns
    /\ pc' = "exit"
    /\ seen' = {} /\ blocks' = <<>> /\ parts' = 0 /\ sent' = 0
    /\ dry' \in BOOLEAN
    /\ ghost' = [NewRun EXCEPT !.loaded = {}]
    /\ UNCHANGED <<arg, ret, file>>

\* lines 206-212: a run starts, loads the seen-set and has no block yet
Start ==
    /\ Stopped /\ ghost.runs < MaxRuns
    /\ pc' = "regions"
    /\ seen' = load_seen(file)
    /\ blocks' = <<>> /\ parts' = 0 /\ sent' = 0
    /\ dry' \in BOOLEAN
    /\ ghost' = NewRun
    /\ UNCHANGED <<arg, ret, file>>

\* lines 213-221, one turn of `for region, urls in FEEDS.items()`.  The block is
\* kept as the items it is formatted from.  The warning of line 216 is output only.
FetchRegion ==
    /\ pc = "regions" /\ Len(blocks) < Len(Regions)
    /\ LET r == Len(blocks) + 1
           urls == FEEDS[Regions[r]]
       IN  \E net \in [{urls[i] : i \in 1..Len(urls)} -> MainAnswers] :
             LET got == fetch_region_items(urls, MAX_ITEMS_PER_REGION, seen, net)
             IN  /\ seen' = add_keys(seen, got.items)
                 /\ blocks' = Append(blocks, got.items)
                 /\ ghost' = [ghost EXCEPT
                       !.skipped = @ \cup {<<r, k>> : k \in got.skipped},
                       !.accepted = @ \cup {<<r, got.items[i].key>> : i \in 1..Len(got.items)}]
    /\ UNCHANGED <<arg, ret, pc, file, parts, sent, dry>>

\* lines 223-225: the digest is composed and cut.  msg starts with the digest's
\* title, so chunk_message returns at least one chunk; how many depends on lengths
\* the model does not carry, so the number of chunks is any of 1..MaxChunks.
Compose ==
    /\ pc = "regions" /\ Len(blocks) = Len(Regions)
    /\ parts' \in 1..MaxChunks
    /\ sent' = 0
    /\ pc' = "send"
    /\ UNCHANGED <<arg, ret, file, seen, blocks, dry, ghost>>

\* lines 225-226, one turn of `for part in chunk_message(msg)`: telegram_send
\* returns, or raises and ends the run
SendPart ==
    /\ pc = "send" /\ sent < parts
    /\ \E answer \in PostAnswers :
         /\ ghost' = [ghost EXCEPT
               !.posts = IF dry THEN @ ELSE Append(@, answer),
               !.undelivered = IF telegram_send(dry, answer) THEN @
                               ELSE @ \cup DigestKeys(blocks)]
         /\ IF telegram_send(dry, answer)
            THEN /\ sent' = sent + 1
                 /\ pc' = IF sent + 1 = parts THEN "save" ELSE "send"
            ELSE /\ sent' = sent
                 /\ pc' = "failed"
    /\ UNCHANGED <<arg, ret, file, seen, blocks, parts, dry>>

\* line 228: save_seen(seen), and main returns
Save ==
    /\ pc = "save"
    /\ \E lst \in Orders(seen) : file' = save_seen(lst)
    /\ pc' = "done"
    /\ ghost' = [ghost EXCEPT
          !.saves = @ + 1,
          !.truncated = @ \/ Cardinality(seen) > MAX_SEEN,
          !.delivered = @ \cup DigestKeys(blocks)]
    /\ UNCHANGED <<arg, ret, seen, blocks, parts, sent, dry>>

Next == StartWithoutCredentials \/ Start \/ FetchRegion \/ Compose \/ SendPart \/ Save

Spec == Init /\ [][Next]_vars

-----------------------------------------------------------------------------
(* Properties of main *)

\* a POST that does not deliver: a transport error, or a status other than 200
Undelivered(answer) == answer.exc \/ answer.status # 200

\* C1: in a run that is not a dry run, a POST that returns a status other than 200
\* or raises a transport error is the last POST of the run: the run has aborted,
\* save_seen has not been called and the seen-file is as it was when the run began.
C1_DeliveryFailureAborts ==
    \A i \in 1..Len(ghost.posts) :
        Undelivered(ghost.posts[i]) =>
            /\ i = Len(ghost.posts)
            /\ pc = "failed"
            /\ ghost.saves = 0
            /\ file = ghost.fileAtStart

\* a run aborted by a 201 on its second chunk, with a seen-file written by an
\* earlier run and items of this run already added to the in-memory seen-set
C1_Witness ==
    /\ pc = "failed" /\ ~dry
    /\ Len(ghost.posts) = 2 /\ ghost.posts[2].status = 201
    /\ file.exists /\ file.text # <<>>
    /\ seen # ghost.loaded

\* C4 as stated: the seen filter skips a candidate only when its fingerprint was in
\* the seen-set loaded at the start of the run.
C4_SkippedOnlyIfLoaded ==
    \A s \in ghost.skipped : s[2] \in ghost.loaded

\* C4 as amended: the seen filter skips a candidate only when its fingerprint was
\* in the seen-set loaded at the start of the run or belongs to an item accepted in
\* an earlier region of the same run; an item accepted earlier in the same region
\* never causes a skip.
C4_SkippedOnlyIfLoadedOrEarlierRegion ==
    \A s \in ghost.skipped :
        \/ s[2] \in ghost.loaded
        \/ \E a \in ghost.accepted : a[2] = s[2] /\ a[1] < s[1]

\* a run whose first region accepted the same fingerprint twice and whose second
\* region skipped that fingerprint, which the loaded seen-set did not hold
C4_Witness ==
    /\ Len(blocks) = 2 /\ Len(blocks[1]) = 2
    /\ blocks[1][1].key = blocks[1][2].key
    /\ <<2, blocks[1][1].key>> \in ghost.skipped
    /\ blocks[1][1].key \notin ghost.loaded

Running == pc \in {"regions", "send", "save"}

\* C10: as long as no save has had more than MAX_SEEN fingerprints to write, the
\* digest of a run includes no fingerprint that the digest of an earlier, completed
\* run included; and a run aborted by a delivery error leaves the persisted set as
\* it loaded it.
C10_DeliveredNeverRepeated ==
    /\ (Running /\ ~ghost.truncated) => DigestKeys(blocks) \cap ghost.delivered = {}
    /\ pc = "failed" => load_seen(file) = ghost.loaded

\* a third run that skips a fingerprint the digest of a completed run included and
\* includes one that only the digest of an aborted run had included
C10_Witness ==
    /\ ghost.runs = 3 /\ pc = "send" /\ ~ghost.truncated
    /\ \E s \in ghost.skipped : s[2] \in ghost.delivered
    /\ DigestKeys(blocks) \cap (ghost.undelivered \ ghost.delivered) # {}

\* C10 without its premise, for comparison: once a save has cut the set down to
\* MAX_SEEN fingerprints, a delivered one may come back
DeliveredNeverRepeatedEvenIfCut ==
    Running => DigestKeys(blocks) \cap ghost.delivered = {}

====
